---- MODULE Spec2Model ----
(***************************************************************************)
(* Model of init-setup.py: the one-shot initialization script that waits   *)
(* for the MinIO cluster (wait_for_minio), registers a Trino catalog       *)
(* (setup_trino_catalog), prints the operator instructions                 *)
(* (print_instructions) and exits (main, sys.exit).                        *)
(*                                                                         *)
(* Strings are sequences of one-character strings, so that str.replace,    *)
(* str.lower and the `in` substring test are computed, not assumed.        *)
(***************************************************************************)
EXTENDS Integers, Sequences, FiniteSets, TLC

VARIABLES
    bucket,        \* WAREHOUSE_BUCKET, read from the environment at import time
    pc,            \* position of the single thread of control
    i,             \* loop index of `for i in range(60)` in wait_for_minio
    resp,          \* status code of the response bound to `resp` (<<>> when unbound)
    gets,          \* number of health-check GETs issued so far
    seen200,       \* whether some health-check GET answered with status 200
    waitRet,       \* "True" or "False" once wait_for_minio returned, "none" before
    catalog_name,  \* local catalog_name of setup_trino_catalog
    connOpen,      \* the connection returned by trino.dbapi.connect is open
    cursorOpen,    \* the cursor returned by conn.cursor() is open
    connects,      \* number of calls of trino.dbapi.connect
    creates,       \* number of times the CREATE CATALOG statement was executed
    exc,           \* exception in flight inside the try block (its message)
    error_msg,     \* local error_msg of the except handler
    retName,       \* value setup_trino_catalog returned to main
    printerArg,    \* argument print_instructions was called with
    calls,         \* components called by main, in call order
    logs,          \* log lines written so far, in order
    exitStatus     \* <<status>> once the process exited, <<>> while it runs

vars == <<bucket, pc, i, resp, gets, seen200, waitRet, catalog_name, connOpen,
          cursorOpen, connects, creates, exc, error_msg, retName, printerArg,
          calls, logs, exitStatus>>

-----------------------------------------------------------------------------
(* Bounds of the model and constants of the program *)

MaxBucketLen == 2

MaxAttempts_OneShort == 60 - 1

MaxAttempts == 60

None == <<"N", "o", "n", "e", "!">>

BucketChars == {"a", "-", "_"}

DefaultBucket == <<"a", "p", "i", "-", "l", "o", "g", "s">>

Buckets ==
    {DefaultBucket} \cup
    UNION {[1..n -> BucketChars] : n \in 0..MaxBucketLen}

NonOkStatus == {404, 503}

Messages ==
    { <<"C", "a", "t", "a", "l", "o", "g", " ", "a", "l", "r", "e", "a", "d", "y", " ", "e", "x", "i", "s", "t", "s">>,
      <<"C", "A", "T", "A", "L", "O", "G", " ", "A", "L", "R", "E", "A", "D", "Y", " ", "E", "X", "I", "S", "T", "S">>,
      <<"a", "l", "r", "e", "a", "d", "y", " ", "E", "x", "i", "s", "t", "s", "!">>,
      <<"a", "l", "r", "e", "a", "d", "y", " ", "e", "x", "i", "s", "t">>,
      <<"C", "o", "n", "n", "e", "c", "t", "i", "o", "n", " ", "r", "e", "f", "u", "s", "e", "d">>,
      <<>> }

-----------------------------------------------------------------------------
(* String operations of the Python runtime used by the script *)

UpperChars == <<"A", "B", "C", "D", "E", "F", "G", "H", "I", "J", "K", "L", "M",
                "N", "O", "P", "Q", "R", "S", "T", "U", "V", "W", "X", "Y", "Z">>

LowerChars == <<"a", "b", "c", "d", "e", "f", "g", "h", "i", "j", "k", "l", "m",
                "n", "o", "p", "q", "r", "s", "t", "u", "v", "w", "x", "y", "z">>

LowerChar(c) ==
    IF \E k \in 1..26 : UpperChars[k] = c
    THEN LowerChars[CHOOSE k \in 1..26 : UpperChars[k] = c]
    ELSE c

\* str.lower()
Lower(s) == [k \in 1..Len(s) |-> LowerChar(s[k])]

\* needle in hay
Contains(hay, needle) ==
    \E k \in 0..(Len(hay) - Len(needle)) : SubSeq(hay, k + 1, k + Len(needle)) = needle

RECURSIVE ReplaceFirst(_, _, _)
ReplaceFirst(s, old, new) ==
    IF s = <<>> THEN <<>>
    ELSE IF Head(s) = old THEN <<new>> \o Tail(s)
    ELSE <<Head(s)>> \o ReplaceFirst(Tail(s), old, new)

\* str.replace(old, new) for one-character old and new
RECURSIVE Replace(_, _, _)
Replace(s, old, new) ==
    IF s = <<>> THEN <<>>
    ELSE <<IF Head(s) = old THEN new ELSE Head(s)>> \o Replace(Tail(s), old, new)

AlreadyExists == <<"a", "l", "r", "e", "a", "d", "y", " ", "e", "x", "i", "s", "t", "s">>

IsAlreadyExists_CaseSensitive(msg) == Contains(msg, AlreadyExists)

\* "already exists" in error_msg.lower()
IsAlreadyExists(msg) == Contains(Lower(msg), AlreadyExists)

Log(line) == logs' = Append(logs, line)

-----------------------------------------------------------------------------
Init ==
    /\ bucket \in Buckets
    /\ pc = "main"
    /\ i = 0
    /\ resp = <<>>
    /\ gets = 0
    /\ seen200 = FALSE
    /\ waitRet = "none"
    /\ catalog_name = None
    /\ connOpen = FALSE
    /\ cursorOpen = FALSE
    /\ connects = 0
    /\ creates = 0
    /\ exc = None
    /\ error_msg = None
    /\ retName = None
    /\ printerArg = None
    /\ calls = <<>>
    /\ logs = <<>>
    /\ exitStatus = <<>>

-----------------------------------------------------------------------------
(* main, up to the call of wait_for_minio, and the first log of the prober *)
MainStart ==
    /\ pc = "main"
    /\ calls' = Append(calls, "wait_for_minio")
    /\ logs' = logs \o <<"banner", "waiting">>
    /\ pc' = "probe_get"
    /\ UNCHANGED <<bucket, i, resp, gets, seen200, waitRet, catalog_name, connOpen,
                   cursorOpen, connects, creates, exc, error_msg, retName,
                   printerArg, exitStatus>>

(* wait_for_minio: one GET answered with status 200 *)
ProbeOk ==
    /\ pc = "probe_get"
    /\ i < MaxAttempts
    /\ gets' = gets + 1
    /\ resp' = <<200>>
    /\ seen200' = TRUE
    /\ Log("ready")
    /\ waitRet' = "True"
    /\ pc' = "wait_returned"
    /\ UNCHANGED <<bucket, i, catalog_name, connOpen, cursorOpen, connects, creates,
                   exc, error_msg, retName, printerArg, calls, exitStatus>>

ProbeNon200_ReturnsTrue ==
    /\ pc = "probe_get"
    /\ i < MaxAttempts
    /\ \E status \in NonOkStatus : resp' = <<status>>
    /\ gets' = gets + 1
    /\ Log("ready")
    /\ waitRet' = "True"
    /\ pc' = "wait_returned"
    /\ UNCHANGED <<bucket, i, seen200, catalog_name, connOpen, cursorOpen, connects,
                   creates, exc, error_msg, retName, printerArg, calls, exitStatus>>

(* wait_for_minio: one GET answered with a status other than 200 *)
ProbeNon200 ==
    /\ pc = "probe_get"
    /\ i < MaxAttempts
    /\ \E status \in NonOkStatus : resp' = <<status>>
    /\ gets' = gets + 1
    /\ pc' = "probe_sleep"
    /\ UNCHANGED <<bucket, i, seen200, waitRet, catalog_name, connOpen, cursorOpen,
                   connects, creates, exc, error_msg, retName, printerArg, calls,
                   logs, exitStatus>>

(* wait_for_minio: one GET raised; the exception is swallowed *)
ProbeException ==
    /\ pc = "probe_get"
    /\ i < MaxAttempts
    /\ gets' = gets + 1
    /\ pc' = "probe_sleep"
    /\ UNCHANGED <<bucket, i, resp, seen200, waitRet, catalog_name, connOpen,
                   cursorOpen, connects, creates, exc, error_msg, retName,
                   printerArg, calls, logs, exitStatus>>

(* wait_for_minio: time.sleep(2), then the next value of range(60) *)
ProbeSleep ==
    /\ pc = "probe_sleep"
    /\ i' = i + 1
    /\ pc' = "probe_get"
    /\ UNCHANGED <<bucket, resp, gets, seen200, waitRet, catalog_name, connOpen,
                   cursorOpen, connects, creates, exc, error_msg, retName,
                   printerArg, calls, logs, exitStatus>>

(* wait_for_minio: range(60) is exhausted *)
ProbeTimeout ==
    /\ pc = "probe_get"
    /\ i >= MaxAttempts
    /\ Log("health_check_timed_out")
    /\ waitRet' = "False"
    /\ pc' = "wait_returned"
    /\ UNCHANGED <<bucket, i, resp, gets, seen200, catalog_name, connOpen, cursorOpen,
                   connects, creates, exc, error_msg, retName, printerArg, calls,
                   exitStatus>>

(* main: wait_for_minio has returned (its value is discarded); call       *)
(* setup_trino_catalog                                                     *)
MainCallSetup ==
    /\ pc = "wait_returned"
    /\ calls' = Append(calls, "setup_trino_catalog")
    /\ pc' = "import_trino"
    /\ UNCHANGED <<bucket, i, resp, gets, seen200, waitRet, catalog_name, connOpen,
                   cursorOpen, connects, creates, exc, error_msg, retName,
                   printerArg, logs, exitStatus>>

(* setup_trino_catalog: `import trino` succeeds; log; compute catalog_name *)
ImportOk ==
    /\ pc = "import_trino"
    /\ Log("setting_up")
    /\ catalog_name' = Replace(bucket, "-", "_")
    /\ pc' = "connect"
    /\ UNCHANGED <<bucket, i, resp, gets, seen200, waitRet, connOpen, cursorOpen,
                   connects, creates, exc, error_msg, retName, printerArg, calls,
                   exitStatus>>

(* setup_trino_catalog: `import trino` raises, outside of the try block;   *)
(* the exception leaves setup_trino_catalog and main, and the interpreter  *)
(* exits with status 1                                                     *)
ImportFail ==
    /\ pc = "import_trino"
    /\ pc' = "crashed"
    /\ exitStatus' = <<1>>
    /\ UNCHANGED <<bucket, i, resp, gets, seen200, waitRet, catalog_name, connOpen,
                   cursorOpen, connects, creates, exc, error_msg, retName,
                   printerArg, calls, logs>>

(* a statement of the try block raises an exception with message m *)
Raise(m) ==
    /\ exc' = m
    /\ pc' = "except"

(* trino.dbapi.connect(...) *)
ConnectOk ==
    /\ pc = "connect"
    /\ connects' = connects + 1
    /\ connOpen' = TRUE
    /\ pc' = "cursor"
    /\ UNCHANGED <<bucket, i, resp, gets, seen200, waitRet, catalog_name, cursorOpen,
                   creates, exc, error_msg, retName, printerArg, calls, logs,
                   exitStatus>>

ConnectRaise ==
    /\ pc = "connect"
    /\ connects' = connects + 1
    /\ \E m \in Messages : Raise(m)
    /\ UNCHANGED <<bucket, i, resp, gets, seen200, waitRet, catalog_name, connOpen,
                   cursorOpen, creates, error_msg, retName, printerArg, calls, logs,
                   exitStatus>>

(* conn.cursor() *)
CursorOk ==
    /\ pc = "cursor"
    /\ cursorOpen' = TRUE
    /\ pc' = "create"
    /\ UNCHANGED <<bucket, i, resp, gets, seen200, waitRet, catalog_name, connOpen,
                   connects, creates, exc, error_msg, retName, printerArg, calls,
                   logs, exitStatus>>

CursorRaise ==
    /\ pc = "cursor"
    /\ \E m \in Messages : Raise(m)
    /\ UNCHANGED <<bucket, i, resp, gets, seen200, waitRet, catalog_name, connOpen,
                   cursorOpen, connects, creates, error_msg, retName, printerArg,
                   calls, logs, exitStatus>>

(* log "Creating"; cursor.execute(create_catalog_sql); log "created" *)
CreateOk ==
    /\ pc = "create"
    /\ creates' = creates + 1
    /\ logs' = logs \o <<"creating", "created_successfully">>
    /\ pc' = "show"
    /\ UNCHANGED <<bucket, i, resp, gets, seen200, waitRet, catalog_name, connOpen,
                   cursorOpen, connects, exc, error_msg, retName, printerArg, calls,
                   exitStatus>>

CreateRaise ==
    /\ pc = "create"
    /\ creates' = creates + 1
    /\ Log("creating")
    /\ \E m \in Messages : Raise(m)
    /\ UNCHANGED <<bucket, i, resp, gets, seen200, waitRet, catalog_name, connOpen,
                   cursorOpen, connects, error_msg, retName, printerArg, calls,
                   exitStatus>>

(* cursor.execute("SHOW SCHEMAS FROM ...") *)
ShowOk ==
    /\ pc = "show"
    /\ pc' = "fetchall"
    /\ UNCHANGED <<bucket, i, resp, gets, seen200, waitRet, catalog_name, connOpen,
                   cursorOpen, connects, creates, exc, error_msg, retName,
                   printerArg, calls, logs, exitStatus>>

ShowRaise ==
    /\ pc = "show"
    /\ \E m \in Messages : Raise(m)
    /\ UNCHANGED <<bucket, i, resp, gets, seen200, waitRet, catalog_name, connOpen,
                   cursorOpen, connects, creates, error_msg, retName, printerArg,
                   calls, logs, exitStatus>>

(* schemas = cursor.fetchall(); log the schemas *)
FetchOk ==
    /\ pc = "fetchall"
    /\ Log("available_schemas")
    /\ pc' = "close_cursor"
    /\ UNCHANGED <<bucket, i, resp, gets, seen200, waitRet, catalog_name, connOpen,
                   cursorOpen, connects, creates, exc, error_msg, retName,
                   printerArg, calls, exitStatus>>

FetchRaise ==
    /\ pc = "fetchall"
    /\ \E m \in Messages : Raise(m)
    /\ UNCHANGED <<bucket, i, resp, gets, seen200, waitRet, catalog_name, connOpen,
                   cursorOpen, connects, creates, error_msg, retName, printerArg,
                   calls, logs, exitStatus>>

(* cursor.close() *)
CloseCursorOk ==
    /\ pc = "close_cursor"
    /\ cursorOpen' = FALSE
    /\ pc' = "close_conn"
    /\ UNCHANGED <<bucket, i, resp, gets, seen200, waitRet, catalog_name, connOpen,
                   connects, creates, exc, error_msg, retName, printerArg, calls,
                   logs, exitStatus>>

(* cursor.close() raises: whether the cursor was released is up to the    *)
(* client library                                                          *)
CloseCursorRaise ==
    /\ pc = "close_cursor"
    /\ cursorOpen' \in BOOLEAN
    /\ \E m \in Messages : Raise(m)
    /\ UNCHANGED <<bucket, i, resp, gets, seen200, waitRet, catalog_name, connOpen,
                   connects, creates, error_msg, retName, printerArg, calls, logs,
                   exitStatus>>

(* conn.close(): the end of the try block *)
CloseConnOk ==
    /\ pc = "close_conn"
    /\ connOpen' = FALSE
    /\ pc' = "setup_return"
    /\ UNCHANGED <<bucket, i, resp, gets, seen200, waitRet, catalog_name, cursorOpen,
                   connects, creates, exc, error_msg, retName, printerArg, calls,
                   logs, exitStatus>>

(* conn.close() raises: whether the connection was released is up to the   *)
(* client library                                                          *)
CloseConnRaise ==
    /\ pc = "close_conn"
    /\ connOpen' \in BOOLEAN
    /\ \E m \in Messages : Raise(m)
    /\ UNCHANGED <<bucket, i, resp, gets, seen200, waitRet, catalog_name, cursorOpen,
                   connects, creates, error_msg, retName, printerArg, calls, logs,
                   exitStatus>>

(* except Exception as e: error_msg = str(e); the "already exists" branch *)
ExceptAlreadyExists ==
    /\ pc = "except"
    /\ error_msg' = exc
    /\ IsAlreadyExists(exc)
    /\ Log("catalog_already_exists")
    /\ exc' = None
    /\ pc' = "setup_return"
    /\ UNCHANGED <<bucket, i, resp, gets, seen200, waitRet, catalog_name, connOpen,
                   cursorOpen, connects, creates, retName, printerArg, calls,
                   exitStatus>>

ExceptOther_Retry ==
    /\ pc = "except"
    /\ error_msg' = exc
    /\ ~IsAlreadyExists(exc)
    /\ logs' = logs \o <<"warning_could_not_create", "create_manually">>
    /\ exc' = None
    /\ pc' = "connect"
    /\ UNCHANGED <<bucket, i, resp, gets, seen200, waitRet, catalog_name, connOpen,
                   cursorOpen, connects, creates, retName, printerArg, calls,
                   exitStatus>>

(* except Exception as e: error_msg = str(e); the else branch *)
ExceptOther ==
    /\ pc = "except"
    /\ error_msg' = exc
    /\ ~IsAlreadyExists(exc)
    /\ logs' = logs \o <<"warning_could_not_create", "create_manually">>
    /\ exc' = None
    /\ pc' = "setup_return"
    /\ UNCHANGED <<bucket, i, resp, gets, seen200, waitRet, catalog_name, connOpen,
                   cursorOpen, connects, creates, retName, printerArg, calls,
                   exitStatus>>

SetupReturn_NoneOnError ==
    /\ pc = "setup_return"
    /\ retName' = IF error_msg = None THEN catalog_name ELSE None
    /\ pc' = "setup_returned"
    /\ UNCHANGED <<bucket, i, resp, gets, seen200, waitRet, catalog_name, connOpen,
                   cursorOpen, connects, creates, exc, error_msg, printerArg, calls,
                   logs, exitStatus>>

(* return catalog_name; main binds the value to its own catalog_name *)
SetupReturn ==
    /\ pc = "setup_return"
    /\ retName' = catalog_name
    /\ pc' = "setup_returned"
    /\ UNCHANGED <<bucket, i, resp, gets, seen200, waitRet, catalog_name, connOpen,
                   cursorOpen, connects, creates, exc, error_msg, printerArg, calls,
                   logs, exitStatus>>

(* main: print_instructions(catalog_name), which prints and returns *)
MainCallPrint ==
    /\ pc = "setup_returned"
    /\ calls' = Append(calls, "print_instructions")
    /\ printerArg' = retName
    /\ pc' = "main_tail"
    /\ UNCHANGED <<bucket, i, resp, gets, seen200, waitRet, catalog_name, connOpen,
                   cursorOpen, connects, creates, exc, error_msg, retName, logs,
                   exitStatus>>

(* main: the closing log lines and `return 0`; sys.exit(main()) *)
MainReturn ==
    /\ pc = "main_tail"
    /\ Log("initialization_complete")
    /\ exitStatus' = <<0>>
    /\ pc' = "exited"
    /\ UNCHANGED <<bucket, i, resp, gets, seen200, waitRet, catalog_name, connOpen,
                   cursorOpen, connects, creates, exc, error_msg, retName,
                   printerArg, calls>>

Next ==
    \/ MainStart
    \/ ProbeOk
    \/ ProbeNon200
    \/ ProbeException
    \/ ProbeSleep
    \/ ProbeTimeout
    \/ MainCallSetup
    \/ ImportOk
    \/ ImportFail
    \/ ConnectOk
    \/ ConnectRaise
    \/ CursorOk
    \/ CursorRaise
    \/ CreateOk
    \/ CreateRaise
    \/ ShowOk
    \/ ShowRaise
    \/ FetchOk
    \/ FetchRaise
    \/ CloseCursorOk
    \/ CloseCursorRaise
    \/ CloseConnOk
    \/ CloseConnRaise
    \/ ExceptAlreadyExists
    \/ ExceptOther
    \/ SetupReturn
    \/ MainCallPrint
    \/ MainReturn

Spec == Init /\ [][Next]_vars

(* The script is sequential: whenever a step is enabled it is eventually   *)
(* taken, every network call and sleep returning or raising.               *)
FairSpec == Spec /\ WF_vars(Next)

-----------------------------------------------------------------------------
(* Properties *)

Probing == pc \in {"probe_get", "probe_sleep"}

ProberDone == waitRet # "none"

RegistrarReturned == pc \in {"setup_returned", "main_tail", "exited"}

Count(line) == Cardinality({k \in DOMAIN logs : logs[k] = line})

(* C1: wait_for_minio returns True if and only if one of its at most 60    *)
(* health-check GETs answered with status 200; whatever the outcomes of    *)
(* the attempts (200, another status, an exception) it returns a boolean   *)
(* and no exception leaves it.                                             *)
C1_ReturnsTrueIffSaw200 ==
    /\ gets <= 60
    /\ ProberDone => /\ waitRet \in {"True", "False"}
                     /\ (waitRet = "True") <=> seen200
    /\ Probing => ~seen200
    /\ pc = "crashed" => ProberDone

C1_Witness == waitRet = "True" /\ seen200 /\ gets = 3 /\ pc = "wait_returned"

(* C2: when no GET is answered with 200, the prober issues exactly 60      *)
(* GETs, then logs the timeout warning once and returns False.             *)
C2_ExactlySixtyAttemptsOnTimeout ==
    /\ (ProberDone /\ ~seen200) => /\ gets = 60
                                  /\ waitRet = "False"
                                  /\ Count("health_check_timed_out") = 1
                                  /\ Count("ready") = 0
    /\ waitRet = "False" => (gets = 60 /\ ~seen200)
    /\ (Probing /\ pc = "probe_sleep") => gets = i + 1
    /\ (Probing /\ pc = "probe_get") => gets = i

C2_Witness ==
    /\ pc = "wait_returned"
    /\ waitRet = "False"
    /\ gets = 60
    /\ resp = <<503>>

(* C3: in every run main calls wait_for_minio, setup_trino_catalog and     *)
(* print_instructions, each exactly once and in that order, whatever       *)
(* failed, and the process exits with status 0.                            *)
C3_AllThreeCalledThenExitZero ==
    /\ \E n \in 0..3 :
          calls = SubSeq(<<"wait_for_minio", "setup_trino_catalog", "print_instructions">>, 1, n)
    /\ exitStatus # <<>> =>
          /\ calls = <<"wait_for_minio", "setup_trino_catalog", "print_instructions">>
          /\ exitStatus = <<0>>

(* C4: when setup_trino_catalog returns, no connection or cursor it opened *)
(* is still open, on the success path and on every exception path.         *)
C4_ResourcesClosedAtReturn ==
    RegistrarReturned => (~connOpen /\ ~cursorOpen)

Sanitized(b) == [k \in 1..Len(b) |-> IF b[k] = "-" THEN "_" ELSE b[k]]

(* C5: for a given bucket, setup_trino_catalog returns the same catalog    *)
(* name whether the DDL succeeded, failed with "already exists" or failed  *)
(* with another error, and print_instructions receives that value.         *)
C5_SameNameOnEveryOutcome ==
    /\ RegistrarReturned => retName = Sanitized(bucket)
    /\ pc \in {"main_tail", "exited"} => printerArg = retName

C5_Witness ==
    /\ pc = "exited"
    /\ error_msg # None
    /\ Count("warning_could_not_create") = 1
    /\ printerArg = <<"a", "p", "i", "_", "l", "o", "g", "s">>

AlreadyExistsUpper == <<"A", "L", "R", "E", "A", "D", "Y", " ", "E", "X", "I", "S", "T", "S">>

AnyCaseAlreadyExists(m) ==
    \E k \in 0..(Len(m) - 14) :
        \A j \in 1..14 : m[k + j] \in {AlreadyExists[j], AlreadyExistsUpper[j]}

(* C6: an exception raised in the try block whose message contains         *)
(* "already exists" in any letter case is logged as 'already exists' and   *)
(* not as the 'Could not create' warning; any other message is logged as   *)
(* the warning instead; the exception never leaves the registrar.          *)
C6_AlreadyExistsIsIdempotent ==
    /\ (error_msg # None /\ AnyCaseAlreadyExists(error_msg)) =>
          /\ Count("catalog_already_exists") = 1
          /\ Count("warning_could_not_create") = 0
    /\ (error_msg # None /\ ~AnyCaseAlreadyExists(error_msg)) =>
          /\ Count("catalog_already_exists") = 0
          /\ Count("warning_could_not_create") = 1
    /\ exc # None => pc = "except"
    /\ pc = "crashed" => (connects = 0 /\ error_msg = None)

C6_Witness ==
    /\ RegistrarReturned
    /\ error_msg = <<"C", "A", "T", "A", "L", "O", "G", " ", "A", "L", "R", "E", "A", "D", "Y", " ", "E", "X", "I", "S", "T", "S">>
    /\ Count("catalog_already_exists") = 1

(* C7: the catalog name is the bucket name with every hyphen replaced by   *)
(* an underscore: same length, no hyphen, every other character unchanged  *)
(* at its position; "api-logs" gives "api_logs".                           *)
C7_HyphensBecomeUnderscores ==
    catalog_name # None =>
        /\ Len(catalog_name) = Len(bucket)
        /\ \A k \in 1..Len(catalog_name) : catalog_name[k] # "-"
        /\ \A k \in 1..Len(bucket) :
              /\ bucket[k] # "-" => catalog_name[k] = bucket[k]
              /\ bucket[k] = "-" => catalog_name[k] = "_"
        /\ bucket = <<"a", "p", "i", "-", "l", "o", "g", "s">> =>
              catalog_name = <<"a", "p", "i", "_", "l", "o", "g", "s">>

C7_Witness ==
    /\ catalog_name # None
    /\ \E j, k \in 1..Len(bucket) : j < k /\ bucket[j] = "-" /\ bucket[k] = "-"

(* C8: the registrar makes a single attempt: at most one connect and at    *)
(* most one execution of CREATE CATALOG in a run, also after a failure.    *)
C8_SingleAttempt ==
    /\ connects <= 1
    /\ creates <= 1

C8_Witness ==
    /\ pc = "exited"
    /\ creates = 1
    /\ Count("created_successfully") = 0
    /\ Count("warning_could_not_create") = 1

(* C9: every call and sleep returning or raising, the script terminates:   *)
(* the prober ends after at most 60 attempts and main reaches its return.  *)
C9_MainReachesReturn ==
    <>(pc = "exited" /\ gets <= 60)

(* C10: the registrar logs exactly one registration outcome among          *)
(* 'created successfully', 'already exists' and the 'Could not create'     *)
(* warning; no warning or 'already exists' follows 'created successfully'. *)
C10_ExactlyOneOutcome ==
    RegistrarReturned =>
        Count("created_successfully") + Count("catalog_already_exists")
            + Count("warning_could_not_create") = 1
====
